---------------------------- MODULE Spec2Model ----------------------------
(***************************************************************************)
(* Model of the transaction aggregation and report pipeline of             *)
(* SkyProCoursework_01 (src/src/reports.py, services.py, views.py).        *)
(*                                                                         *)
(* Conventions                                                             *)
(*  - a string is a sequence of one-character strings;                     *)
(*  - a table cell is a record [t, s, v]: text (t = "str", s the text), a  *)
(*    number (t = "num", v the value) or a missing value (t = "nan");      *)
(*  - money is an integer number of thousandths (milli-units) in the       *)
(*    table and an integer number of hundredths (cents) once rounded to    *)
(*    2 decimals; decimal arithmetic is exact (binary floating point       *)
(*    representation error is not modelled);                               *)
(*  - an instant is a record [y, m, d, hh]; years are the non-leap years   *)
(*    2021..2023, so day arithmetic uses 365-day years;                    *)
(*  - a table follows the TransactionRow typing of the data model:         *)
(*    category and status cells are text.                                  *)
(***************************************************************************)
EXTENDS Integers, Sequences, FiniteSets, TLC

VARIABLES
    transactions,   \* the caller's table: a sequence of rows
    columns,        \* the column names the table has
    file_state,     \* the source file of services.py: "missing", "corrupt", "ok"
    sink_ok,        \* whether the report file of reports.py can be opened for writing
    sink,           \* the report file: what was last written to it
    call,           \* the last call made: operation and arguments
    result,         \* the value the called function's body produced
    returned,       \* what the caller got: a value, or a raised exception
    config,         \* views.py: the API keys of Config and the settings file
    settings_cache, \* views.py: the lru_cache of load_user_settings
    requests        \* views.py: the requests sent to the providers, in order

vars == <<transactions, columns, file_state, sink_ok, sink, call, result, returned,
          config, settings_cache, requests>>

-----------------------------------------------------------------------------
(* Cells and strings *)

Str(s) == [t |-> "str", s |-> s, v |-> 0]
Num(v) == [t |-> "num", s |-> <<>>, v |-> v]
NaN == [t |-> "nan", s |-> <<>>, v |-> 0]

IsStr(c) == c.t = "str"
IsNum(c) == c.t = "num"
IsNaN(c) == c.t = "nan"

Digits == {"0", "1", "2", "3", "4", "5", "6", "7", "8", "9"}

DigitValue(ch) ==
    CASE ch = "0" -> 0 [] ch = "1" -> 1 [] ch = "2" -> 2 [] ch = "3" -> 3
      [] ch = "4" -> 4 [] ch = "5" -> 5 [] ch = "6" -> 6 [] ch = "7" -> 7
      [] ch = "8" -> 8 [] ch = "9" -> 9

\* str.lower / str.upper on one character (the alphabet of the model)
LowerChar(ch) ==
    CASE ch = "F" -> "f" [] ch = "T" -> "t" [] ch = "O" -> "o" [] ch = "K" -> "k"
      [] OTHER -> ch

UpperChar(ch) ==
    CASE ch = "f" -> "F" [] ch = "t" -> "T" [] ch = "o" -> "O" [] ch = "k" -> "K"
      [] OTHER -> ch

Lower(s) == [i \in 1..Len(s) |-> LowerChar(s[i])]
Upper(s) == [i \in 1..Len(s) |-> UpperChar(s[i])]

RECURSIVE LStrip(_)
LStrip(s) == IF s # <<>> /\ Head(s) = " " THEN LStrip(Tail(s)) ELSE s

RECURSIVE RStrip(_)
RStrip(s) ==
    IF s # <<>> /\ s[Len(s)] = " " THEN RStrip(SubSeq(s, 1, Len(s) - 1)) ELSE s

\* str.strip()
Strip(s) == RStrip(LStrip(s))

RECURSIVE SumSeq(_)
SumSeq(s) == IF s = <<>> THEN 0 ELSE Head(s) + SumSeq(Tail(s))

Abs(n) == IF n < 0 THEN -n ELSE n

\* n / d rounded to the nearest integer, ties to the even one (Python's and
\* numpy's round); d > 0
RoundHalfEvenDiv(n, d) ==
    LET a == Abs(n)
        q == a \div d
        r == a % d
        up == \/ 2 * r > d
              \/ 2 * r = d /\ q % 2 = 1
        m == IF up THEN q + 1 ELSE q
    IN  IF n < 0 THEN -m ELSE m

\* round(x, 2) of an amount in milli-units, as a number of cents
Round2(milli) == RoundHalfEvenDiv(milli, 10)

-----------------------------------------------------------------------------
(* Calendar *)

DaysInMonth == <<31, 28, 31, 30, 31, 30, 31, 31, 30, 31, 30, 31>>

RECURSIVE DaysBefore(_)
DaysBefore(m) == IF m <= 1 THEN 0 ELSE DaysInMonth[m - 1] + DaysBefore(m - 1)

\* the instant [y, m, d, hh] in hours since 2021-01-01 00:00
Hours(dt) == ((dt.y - 2021) * 365 + DaysBefore(dt.m) + (dt.d - 1)) * 24 + dt.hh

\* a valid calendar date and hour
ValidDate(y, m, d, hh) ==
    /\ m \in 1..12
    /\ d \in 1..DaysInMonth[m]
    /\ hh \in 0..23

NaT == [y |-> 0, m |-> 0, d |-> 0, hh |-> 0]

\* A raw operation date is the text "a.b.y" or "a.b.y hh:00:00" split in its
\* fields, or text that is no date at all (fmt = "garbage").
\* pd.to_datetime(..., dayfirst=True, errors="coerce"): day first; NaT when the
\* text is no calendar date.
to_datetime(raw) ==
    IF raw.fmt \in {"dmy", "date"} /\ ValidDate(raw.y, raw.b, raw.a, raw.hh)
    THEN [y |-> raw.y, m |-> raw.b, d |-> raw.a, hh |-> raw.hh]
    ELSE NaT

\* .dt.to_period("M") rendered by str(): "YYYY-MM"
to_period_M(dt) == <<dt.y, dt.m>>


-----------------------------------------------------------------------------
(* Tables.  Column names: "date" is "Дата операции", "category" is          *)
(* "Категория", "amount" is "Сумма операции", "card" is "Номер карты",       *)
(* "status" is "Статус", "cashback" is "Кэшбэк", "description" is "Описание"; *)
(* "last_digits" is the column process_cards_data adds.                      *)

RawDate(a, b, y, hh) == [fmt |-> "dmy", a |-> a, b |-> b, y |-> y, hh |-> hh]
GarbageDate == [fmt |-> "garbage", a |-> 0, b |-> 0, y |-> 0, hh |-> 0]
NoDate == [fmt |-> "absent", a |-> 0, b |-> 0, y |-> 0, hh |-> 0]
\* the text "a.b.y" that is known to carry no time of day
DateOnly(a, b, y) == [fmt |-> "date", a |-> a, b |-> b, y |-> y, hh |-> 0]

\* the row of a table that has none of the columns
BlankRow ==
    [date |-> NoDate, category |-> NaN, amount |-> NaN, card |-> NaN,
     status |-> NaN, cashback |-> NaN, description |-> NaN, last_digits |-> NaN]

\* all sequences over S of length 0..n
SeqsUpTo(S, n) == UNION {[1..k -> S] : k \in 0..n}

-----------------------------------------------------------------------------
(* The environment of views.py: Config, the settings file and the cache of  *)
(* load_user_settings.  The settings file is absent, is no JSON, or holds   *)
(* an object; has_currencies / has_stocks tell whether the object has the   *)
(* keys "user_currencies" / "user_stocks".                                  *)

SettingsFile(state, has_currencies, user_currencies, has_stocks, user_stocks) ==
    [state |-> state, has_currencies |-> has_currencies,
     user_currencies |-> user_currencies, has_stocks |-> has_stocks,
     user_stocks |-> user_stocks]

AbsentSettings == SettingsFile("absent", FALSE, <<>>, FALSE, <<>>)

\* the modules that do not use views.py leave its environment alone
NoConfig == [CURRENCY_API_KEY |-> FALSE, ALPHA_VANTAGE_API_KEY |-> FALSE,
             SETTINGS_PATH |-> AbsentSettings]

\* the cache of load_user_settings before the first call
EmptyCache == [loaded |-> FALSE, settings |-> AbsentSettings]

-----------------------------------------------------------------------------
(* reports.py: get_spending_by_category *)

last_days == 90

Report(r) == [kind |-> "report", report |-> r, msg |-> "", err |-> "", missing |-> <<>>]
Message(m) == [kind |-> "message", report |-> {}, msg |-> m, err |-> "", missing |-> <<>>]
ErrorValue(e, cols) == [kind |-> "error", report |-> {}, msg |-> "", err |-> e, missing |-> cols]
Raised(e) == [kind |-> "raised", report |-> {}, msg |-> "", err |-> e, missing |-> <<>>]
NoResult == [kind |-> "none", report |-> {}, msg |-> "", err |-> "", missing |-> <<>>]

\* target_date arguments: absent (None), or the text "y-m-d" split in its
\* fields, or text of another shape
NoTarget == [given |-> FALSE, fmt |-> "none", y |-> 0, m |-> 0, d |-> 0]
TargetText(y, m, d) == [given |-> TRUE, fmt |-> "ymd", y |-> y, m |-> m, d |-> d]
GarbageTarget == [given |-> TRUE, fmt |-> "garbage", y |-> 0, m |-> 0, d |-> 0]

\* mutant: the day is checked against 31 whatever the month
strptime_ok_AnyMonth31(target_date) ==
    target_date.fmt = "ymd" /\ target_date.m \in 1..12 /\ target_date.d \in 1..31

\* datetime.strptime(target_date, "%Y-%m-%d") succeeds
strptime_ok(target_date) ==
    target_date.fmt = "ymd" /\ ValidDate(target_date.y, target_date.m, target_date.d, 0)

\* the datetime strptime returns: midnight of the date
strptime(target_date) ==
    [y |-> target_date.y, m |-> target_date.m, d |-> target_date.d, hh |-> 0]

required_cols == <<"date", "category", "amount">>

\* mutant: every required column is reported as soon as one is missing
MissingOf_AllRequired(required, cols) ==
    IF \E i \in 1..Len(required) : required[i] \notin cols THEN required ELSE <<>>

\* the required columns the table lacks, in the order of required_cols
MissingOf(required, cols) == SelectSeq(required, LAMBDA c : c \notin cols)

\* rows with a parsed date, a negative amount (made absolute) and a
\* normalised category: the frame df after line 121
ExpenseFrame(df) ==
    LET parsed == [i \in 1..Len(df) |->
                     [df[i] EXCEPT !.date = to_datetime(df[i].date)]]
        dated == SelectSeq(parsed, LAMBDA r : r.date # NaT)
        spent == SelectSeq(dated, LAMBDA r : IsNum(r.amount) /\ r.amount.v < 0)
    IN  [i \in 1..Len(spent) |->
           [spent[i] EXCEPT !.amount = Num(Abs(spent[i].amount.v)),
                            !.category = IF IsStr(spent[i].category)
                                         THEN Str(Lower(Strip(spent[i].category.s)))
                                         ELSE NaN]]

\* the rows of the frame whose date lies between start_date and target_date
WindowFilter(frame, start, target) ==
    SelectSeq(frame, LAMBDA r : Hours(r.date) >= start /\ Hours(r.date) <= target)

\* round(v, 2) of a month's sum
RoundSum(milli) == Round2(milli)

\* mutant: each amount is rounded before the month is summed
MonthlyTotals_RoundEach(filtered) ==
    LET months == {to_period_M(filtered[i].date) : i \in 1..Len(filtered)}
        amounts(k) ==
            LET rows == SelectSeq(filtered, LAMBDA r : to_period_M(r.date) = k)
            IN  [i \in 1..Len(rows) |-> Round2(rows[i].amount.v)]
    IN  {[month |-> k, total |-> SumSeq(amounts(k))] : k \in months}

\* groupby("Месяц")["Сумма операции"].sum(), keys rendered, values rounded
MonthlyTotals(filtered) ==
    LET months == {to_period_M(filtered[i].date) : i \in 1..Len(filtered)}
        amounts(k) ==
            LET rows == SelectSeq(filtered, LAMBDA r : to_period_M(r.date) = k)
            IN  [i \in 1..Len(rows) |-> rows[i].amount.v]
    IN  {[month |-> k, total |-> RoundSum(SumSeq(amounts(k)))] : k \in months}

\* mutant: the window is tested before the category
SpendingOutcome_WindowFirst(category_transactions, filtered) ==
    IF filtered = <<>> THEN Message("no_window")
    ELSE IF category_transactions = <<>> THEN Message("no_category")
    ELSE Report(MonthlyTotals(filtered))

\* the two empty outcomes, in the order the body tests them, then the report
SpendingOutcome(category_transactions, filtered) ==
    IF category_transactions = <<>> THEN Message("no_category")
    ELSE IF filtered = <<>> THEN Message("no_window")
    ELSE Report(MonthlyTotals(filtered))

\* the body of get_spending_by_category; now is datetime.now()
get_spending_by_category(df, cols, category, target_date, now) ==
    IF target_date.given /\ ~strptime_ok(target_date)
    THEN ErrorValue("InvalidInput", <<>>)
    ELSE
    LET target == IF target_date.given THEN strptime(target_date) ELSE now
        missing == MissingOf(required_cols, cols)
        search_category == Lower(Strip(category))
        frame == ExpenseFrame(df)
        category_transactions ==
            SelectSeq(frame, LAMBDA r : r.category = Str(search_category))
        start_date == Hours(target) - last_days * 24
        filtered == WindowFilter(category_transactions, start_date, Hours(target))
    IN  IF missing # <<>> THEN ErrorValue("SchemaError", missing)
        ELSE SpendingOutcome(category_transactions, filtered)

\* mutant: a failure to write the file is swallowed and the value returned
report_to_file_SwallowWriteError(df, cols, category, target_date, now, filename_given, can_write, file) ==
    LET value == get_spending_by_category(df, cols, category, target_date, now)
    IN  IF filename_given THEN <<NoResult, file, Raised("TypeError")>>
        ELSE IF ~can_write THEN <<value, file, value>>
        ELSE <<value, [name |-> "default_filename", content |-> value], value>>

\* report_to_file's wrapper around the body: the caller's keyword arguments,
\* filename included, are passed on to the function, which accepts no filename;
\* then the value is written to the file and returned.  The triple is
\* <<the body's value, the file afterwards, what the caller gets>>.
report_to_file(df, cols, category, target_date, now, filename_given, can_write, file) ==
    LET value == get_spending_by_category(df, cols, category, target_date, now)
    IN  IF filename_given THEN <<NoResult, file, Raised("TypeError")>>
        ELSE IF ~can_write THEN <<value, file, Raised("OSError")>>
        ELSE <<value, [name |-> "default_filename", content |-> value], value>>

-----------------------------------------------------------------------------
(* The specification of reports.py *)

MaxRows == 3

FoodRow(date, milli) ==
    [BlankRow EXCEPT !.date = date, !.category = Str(<<" ", "F", " ">>),
                     !.amount = Num(milli)]

\* target date 2023-03-01: its window starts on 2022-12-01
ReportDates ==
    {RawDate(1, 12, 2022, 0), RawDate(30, 11, 2022, 0), RawDate(1, 3, 2023, 0),
     RawDate(1, 3, 2023, 12), RawDate(2, 3, 2023, 0), RawDate(31, 2, 2023, 0),
     GarbageDate}

ReportRows ==
    {FoodRow(d, -1235) : d \in ReportDates}
    \cup {FoodRow(RawDate(1, 3, 2023, 0), -1005),
          FoodRow(RawDate(1, 3, 2023, 0), 2000),
          [FoodRow(RawDate(1, 3, 2023, 0), -1235) EXCEPT !.category = Str(<<"t">>)],
          [FoodRow(RawDate(1, 12, 2022, 0), -1235) EXCEPT !.category = Str(<<"t">>)]}

ReportColumnSets == {{"date", "category", "amount"}, {"date", "category"}, {"category"}, {}}

\* a row of a table that has only the columns cols
Project(row, cols) ==
    [date |-> IF "date" \in cols THEN row.date ELSE NoDate,
     category |-> IF "category" \in cols THEN row.category ELSE NaN,
     amount |-> IF "amount" \in cols THEN row.amount ELSE NaN,
     card |-> IF "card" \in cols THEN row.card ELSE NaN,
     status |-> IF "status" \in cols THEN row.status ELSE NaN,
     cashback |-> IF "cashback" \in cols THEN row.cashback ELSE NaN,
     description |-> IF "description" \in cols THEN row.description ELSE NaN,
     last_digits |-> IF "last_digits" \in cols THEN row.last_digits ELSE NaN]

QueryCategories == {<<"F", " ">>, <<"t">>}

TargetDates == {NoTarget, TargetText(2023, 3, 1), TargetText(2023, 2, 30), GarbageTarget}

Nows == {[y |-> 2023, m |-> 3, d |-> 1, hh |-> 14], [y |-> 2023, m |-> 3, d |-> 2, hh |-> 9]}

NoCall ==
    [op |-> "none", category |-> <<>>, target_date |-> NoTarget, now |-> NaT,
     filename_given |-> FALSE]

NoFile == [name |-> "", content |-> NoResult]

InitReports ==
    /\ columns \in ReportColumnSets
    /\ transactions \in SeqsUpTo({Project(r, columns) : r \in ReportRows}, MaxRows)
    /\ file_state = "ok"
    /\ sink_ok \in BOOLEAN
    /\ sink = NoFile
    /\ config = NoConfig
    /\ settings_cache = EmptyCache
    /\ requests = <<>>
    /\ call = NoCall
    /\ result = NoResult
    /\ returned = NoResult

\* one call of the decorated get_spending_by_category on the table
CallSpending ==
    \E category \in QueryCategories, target_date \in TargetDates,
       now \in Nows, filename_given \in BOOLEAN :
        LET out == report_to_file(transactions, columns, category, target_date,
                                  now, filename_given, sink_ok, sink)
        IN  /\ call.op = "none"
            /\ call' = [op |-> "get_spending_by_category", category |-> category,
                        target_date |-> target_date,
                        now |-> IF target_date.given THEN NaT ELSE now,
                        filename_given |-> filename_given]
            /\ result' = out[1]
            /\ sink' = out[2]
            /\ returned' = out[3]
            /\ UNCHANGED <<transactions, columns, file_state, sink_ok, config, settings_cache,
                         requests>>

NextReports == CallSpending

SpecReports == InitReports /\ [][NextReports]_vars

-----------------------------------------------------------------------------
(* Properties of get_spending_by_category *)

\* the body of get_spending_by_category has run in the last call
SpendingCalled == call.op = "get_spending_by_category" /\ result.kind # "none"

\* the instant the call measures from: midnight of target_date, or now
TargetInstant ==
    IF call.target_date.given
    THEN [y |-> call.target_date.y, m |-> call.target_date.m,
          d |-> call.target_date.d, hh |-> 0]
    ELSE call.now

\* row i is an expense of the queried category with a parseable date
MatchingRow(i) ==
    LET row == transactions[i]
    IN  /\ to_datetime(row.date) # NaT
        /\ IsNum(row.amount) /\ row.amount.v < 0
        /\ IsStr(row.category)
        /\ Strip(Lower(row.category.s)) = Strip(Lower(call.category))

MatchingRows == {i \in 1..Len(transactions) : MatchingRow(i)}

\* the window as an interval of instants: target - 90 days <= d <= target
InWindow(i) ==
    LET h == Hours(to_datetime(transactions[i].date))
    IN  Hours(TargetInstant) - 90 * 24 <= h /\ h <= Hours(TargetInstant)

MonthOfRow(i) ==
    LET dt == to_datetime(transactions[i].date) IN <<dt.y, dt.m>>

RECURSIVE SumAbsAmounts(_)
SumAbsAmounts(S) ==
    IF S = {} THEN 0
    ELSE LET i == CHOOSE j \in S : TRUE
         IN  Abs(transactions[i].amount.v) + SumAbsAmounts(S \ {i})

\* C1: a returned report has exactly one key per calendar month that holds a
\* matching expense row inside the window, and the value of the key is the sum
\* of the absolute amounts of exactly those rows, rounded to 2 decimals; other
\* rows contribute nothing.
C1_ReportIsMonthlySums ==
    (SpendingCalled /\ result.kind = "report") =>
        LET counted == {i \in MatchingRows : InWindow(i)}
            rowsOf(k) == {i \in counted : MonthOfRow(i) = k}
        IN  /\ {e.month : e \in result.report} = {MonthOfRow(i) : i \in counted}
            /\ \A e \in result.report :
                  e.total = RoundHalfEvenDiv(SumAbsAmounts(rowsOf(e.month)), 10)
            /\ \A e1, e2 \in result.report : e1.month = e2.month => e1 = e2

\* a report over two months, one of them the rounded sum of two rows
C1_Witness ==
    /\ SpendingCalled /\ result.kind = "report"
    /\ Cardinality(result.report) = 2
    /\ \E e \in result.report : e.total = 247
    /\ Cardinality({i \in MatchingRows : InWindow(i)}) = 3

\* the calendar day of an instant, in days since 2021-01-01
DayOf(dt) == Hours(dt) \div 24

\* the window as a range of calendar dates: every time of the days
\* target_date - 90 days .. target_date
InDayWindow(i) ==
    LET day == DayOf(to_datetime(transactions[i].date))
    IN  DayOf(TargetInstant) - 90 <= day /\ day <= DayOf(TargetInstant)

RemoveRow(df, i) == SubSeq(df, 1, i - 1) \o SubSeq(df, i + 1, Len(df))

\* row i is counted by a report: without the row the call gives another value
Counted(i) ==
    get_spending_by_category(RemoveRow(transactions, i), columns, call.category,
                             call.target_date, call.now) # result

\* C2: a matching expense row is counted if and only if its operation date is
\* one of the days target_date - 90 days .. target_date, at any time of the day.
C2_WindowIsInclusiveDateRange ==
    SpendingCalled =>
        \A i \in MatchingRows :
            /\ result.kind = "report" => (Counted(i) <=> InDayWindow(i))
            /\ result.kind = "message" => ~InDayWindow(i)

\* What the code does instead: the window is the interval of instants from
\* (midnight of target_date, or now) - 90 days to that same instant.
WindowIsInstantInterval ==
    SpendingCalled =>
        \A i \in MatchingRows :
            /\ result.kind = "report" => (Counted(i) <=> InWindow(i))
            /\ result.kind = "message" => ~InWindow(i)

\* the call passes the validation of its arguments
ValidSpendingCall ==
    /\ {"date", "category", "amount"} \subseteq columns
    /\ call.target_date.given => strptime_ok(call.target_date)

\* C3: with no matching expense row the value is the "no transactions for
\* category" message whatever the window; it is the "no transactions in the
\* last 3 months" message exactly when matching rows exist and none is inside
\* the window; a message is no error and carries no month keys.
C3_EmptyOutcomesInOrder ==
    (SpendingCalled /\ ValidSpendingCall) =>
        /\ MatchingRows = {} <=> result = Message("no_category")
        /\ (MatchingRows # {} /\ \A i \in MatchingRows : ~InWindow(i))
              <=> result = Message("no_window")
        /\ result.kind = "message" => (result.report = {} /\ result.err = "")

\* matching rows exist, all of them outside the window, next to a row of
\* another category inside the window
C3_Witness ==
    /\ SpendingCalled /\ ValidSpendingCall
    /\ result = Message("no_window")
    /\ MatchingRows # {}
    /\ \E i \in 1..Len(transactions) : i \notin MatchingRows /\ InWindow(i)

RequiredMissing == {"date", "category", "amount"} \ columns

ListsExactlyMissing(value) ==
    /\ value.kind \in {"error", "raised"}
    /\ value.err = "SchemaError"
    /\ {value.missing[i] : i \in 1..Len(value.missing)} = RequiredMissing
    /\ Len(value.missing) = Cardinality(RequiredMissing)
    /\ value.report = {}

\* C4 as stated: whenever the table lacks a required column the call fails
\* with a SchemaError that lists exactly the missing required columns.
C4_Original ==
    (SpendingCalled /\ RequiredMissing # {}) => ListsExactlyMissing(result)

\* C4 (amended): when the table lacks a required column and target_date is
\* absent or parses, the body gives the error value that lists exactly the
\* missing required columns, each once, and nothing is filtered or aggregated.
C4_SchemaErrorListsMissing ==
    (/\ SpendingCalled
     /\ RequiredMissing # {}
     /\ call.target_date.given => strptime_ok(call.target_date))
        => (result.kind = "error" /\ ListsExactlyMissing(result))

\* two of the three required columns are missing and both are listed
C4_Witness ==
    /\ SpendingCalled
    /\ columns = {"category"}
    /\ call.target_date = TargetText(2023, 3, 1)
    /\ Len(transactions) > 0
    /\ result = ErrorValue("SchemaError", <<"date", "amount">>)

\* the text names a day of the calendar
IsCalendarDate(t) ==
    /\ t.fmt = "ymd"
    /\ t.m \in 1..12
    /\ t.d >= 1
    /\ t.d <= (CASE t.m \in {4, 6, 9, 11} -> 30 [] t.m = 2 -> 28 [] OTHER -> 31)

\* C5: a given target_date that is no calendar date gives InvalidInput; with
\* target_date absent the call never gives InvalidInput and measures the
\* window from the current time.
C5_TargetDateParsing ==
    SpendingCalled =>
        /\ (call.target_date.given /\ ~IsCalendarDate(call.target_date))
              => result = ErrorValue("InvalidInput", <<>>)
        /\ ~call.target_date.given =>
              /\ result.err # "InvalidInput"
              /\ RequiredMissing = {} =>
                    (result.kind = "report" <=> \E i \in MatchingRows : InWindow(i))

\* 2023-02-30 is given for a table that holds a matching row
C5_Witness ==
    /\ SpendingCalled
    /\ call.target_date = TargetText(2023, 2, 30)
    /\ MatchingRows # {}
    /\ RequiredMissing = {}
    /\ result = ErrorValue("InvalidInput", <<>>)

-----------------------------------------------------------------------------
(* services.py: analyze_cashback_categories *)

\* the characters of the model in code point order
CodePoints ==
    <<" ", "*", "0", "1", "2", "3", "4", "5", "6", "7", "8", "9", "A", "D", "E",
      "F", "I", "K", "L", "O", "S", "T", "f", "k", "o", "t", "x">>

CharCode(ch) == CHOOSE i \in 1..Len(CodePoints) : CodePoints[i] = ch

\* s1 < s2 as Python compares strings
RECURSIVE StrLess(_, _)
StrLess(s1, s2) ==
    IF s2 = <<>> THEN FALSE
    ELSE IF s1 = <<>> THEN TRUE
    ELSE IF Head(s1) = Head(s2) THEN StrLess(Tail(s1), Tail(s2))
    ELSE CharCode(Head(s1)) < CharCode(Head(s2))

\* the value of a text of digits
RECURSIVE DigitsValue(_)
DigitsValue(s) ==
    IF s = <<>> THEN 0 ELSE DigitsValue(SubSeq(s, 1, Len(s) - 1)) * 10 + DigitValue(s[Len(s)])

\* pd.to_numeric(..., errors="coerce") on one cell: numbers stay, text of
\* digits becomes its value, other text and missing values become NaN
to_numeric(c) ==
    IF IsNum(c) THEN c
    ELSE IF IsStr(c) /\ c.s # <<>> /\ \A i \in 1..Len(c.s) : c.s[i] \in Digits
    THEN Num(DigitsValue(c.s))
    ELSE NaN

JsonReport(entries) ==
    [kind |-> "report", report |-> entries, msg |-> "", err |-> "", missing |-> <<>>]
JsonError(e, cols) ==
    [kind |-> "error", report |-> <<>>, msg |-> "", err |-> e, missing |-> cols]
Exception(e, cols) ==
    [kind |-> "raised", report |-> <<>>, msg |-> "", err |-> e, missing |-> cols]
NoJson == [kind |-> "none", report |-> <<>>, msg |-> "", err |-> "", missing |-> <<>>]

required_columns == <<"date", "status", "cashback", "category">>

\* the keys of a groupby in ascending order
RECURSIVE SortedKeys(_)
SortedKeys(S) ==
    IF S = {} THEN <<>>
    ELSE LET least == CHOOSE k \in S : \A o \in S \ {k} : StrLess(k, o)
         IN  <<least>> \o SortedKeys(S \ {least})

\* groupby("Категория")["Кэшбэк"].sum(): one entry per category, keys ascending
GroupCashback(rows) ==
    LET keys == SortedKeys({rows[i].category.s : i \in {j \in 1..Len(rows) : IsStr(rows[j].category)}})
        amounts(k) ==
            LET of == SelectSeq(rows, LAMBDA r : r.category = Str(k))
            IN  [i \in 1..Len(of) |-> of[i].cashback.v]
    IN  [i \in 1..Len(keys) |-> [category |-> keys[i], total |-> SumSeq(amounts(keys[i]))]]

\* e put into a sequence that is in descending order of total, behind the
\* entries that are not smaller
RECURSIVE InsertDescending(_, _)
InsertDescending(sorted, e) ==
    IF sorted = <<>> THEN <<e>>
    ELSE IF Head(sorted).total >= e.total
         THEN <<Head(sorted)>> \o InsertDescending(Tail(sorted), e)
         ELSE <<e>> \o sorted

\* mutant: the default ascending order of sort_values
RECURSIVE sort_values_Ascending(_)
sort_values_Ascending(entries) ==
    IF entries = <<>> THEN <<>>
    ELSE LET rest == sort_values_Ascending(SubSeq(entries, 1, Len(entries) - 1))
             e == entries[Len(entries)]
             smaller == SelectSeq(rest, LAMBDA x : x.total <= e.total)
             larger == SelectSeq(rest, LAMBDA x : x.total > e.total)
         IN  smaller \o <<e>> \o larger

\* result.sort_values(ascending=False)
RECURSIVE sort_values(_)
sort_values(entries) ==
    IF entries = <<>> THEN <<>>
    ELSE InsertDescending(sort_values(SubSeq(entries, 1, Len(entries) - 1)),
                          entries[Len(entries)])

\* mutant: rows with any cashback, zero and negative included, are kept
CashbackRows_All(filtered_df) == filtered_df

\* filtered_df[filtered_df["Кэшбэк"] > 0]
CashbackRows(filtered_df) == SelectSeq(filtered_df, LAMBDA r : r.cashback.v > 0)

\* the try block of analyze_cashback_categories: the value it returns, or the
\* exception it raises.  file is "missing", "not_excel", "bad_zip" or "ok".
CashbackTry(file, df, cols, year, month) ==
    IF file = "missing" THEN Exception("FileNotFoundError", <<>>)
    ELSE IF file = "not_excel" THEN Exception("ValueError", <<>>)
    ELSE IF file = "bad_zip" THEN Exception("BadZipFile", <<>>)
    ELSE
    LET missing_columns == MissingOf(required_columns, cols)
        parsed == [i \in 1..Len(df) |-> [df[i] EXCEPT !.date = to_datetime(df[i].date)]]
        dated == SelectSeq(parsed, LAMBDA r : r.date # NaT)
        present == SelectSeq(dated, LAMBDA r : ~IsNaN(r.cashback))
        coerced == [i \in 1..Len(present) |->
                      [present[i] EXCEPT !.cashback = to_numeric(present[i].cashback)]]
        numeric == SelectSeq(coerced, LAMBDA r : ~IsNaN(r.cashback))
        filtered_df ==
            SelectSeq(numeric, LAMBDA r : /\ r.date.y = year
                                          /\ r.date.m = month
                                          /\ IsStr(r.status)
                                          /\ Upper(Strip(r.status.s)) = <<"O", "K">>)
        cashback_df == CashbackRows(filtered_df)
    IN  IF missing_columns # <<>> THEN Exception("SchemaError", missing_columns)
        ELSE IF filtered_df = <<>> THEN JsonReport(<<>>)
        ELSE IF cashback_df = <<>> THEN JsonReport(<<>>)
        ELSE JsonReport(sort_values(GroupCashback(cashback_df)))

\* mutant: FileNotFoundError and the ValueError of the column check are not
\* caught
CashbackExcept_Propagate(outcome) ==
    IF outcome.kind # "raised" THEN outcome
    ELSE IF outcome.err \in {"FileNotFoundError", "SchemaError"} THEN outcome
    ELSE JsonError("InternalError", <<>>)

\* the except clauses: every exception becomes an {"error": ...} value
CashbackExcept(outcome) ==
    IF outcome.kind # "raised" THEN outcome
    ELSE IF outcome.err = "FileNotFoundError" THEN JsonError("NotFoundError", <<>>)
    ELSE IF outcome.err = "SchemaError" THEN JsonError("SchemaError", outcome.missing)
    ELSE IF outcome.err = "ValueError" THEN JsonError("ValueError", <<>>)
    ELSE JsonError("InternalError", <<>>)

analyze_cashback_categories(file, df, cols, year, month) ==
    CashbackExcept(CashbackTry(file, df, cols, year, month))

-----------------------------------------------------------------------------
(* The specification of services.py *)

CashbackRow(date, status, cashback, category) ==
    [BlankRow EXCEPT !.date = date, !.status = Str(status), !.cashback = cashback,
                     !.category = Str(category)]

OK == <<"O", "K">>

ServiceRows ==
    {CashbackRow(RawDate(1, 12, 2021, 12), OK, Num(100), <<"S">>),
     CashbackRow(RawDate(15, 12, 2021, 18), OK, Num(50), <<"A">>),
     CashbackRow(RawDate(15, 12, 2021, 18), <<" ", "o", "k", " ">>, Num(50), <<"S">>),
     CashbackRow(RawDate(3, 1, 2022, 9), <<"F", "A", "I", "L", "E", "D">>, Num(200), <<"T">>),
     CashbackRow(GarbageDate, OK, Num(100), <<"T">>),
     CashbackRow(RawDate(31, 11, 2021, 0), OK, Num(100), <<"T">>),
     CashbackRow(RawDate(1, 12, 2021, 12), OK, Str(<<"x">>), <<"T">>),
     CashbackRow(RawDate(1, 12, 2021, 12), OK, NaN, <<"T">>),
     CashbackRow(RawDate(1, 12, 2021, 12), OK, Num(0), <<"T">>),
     CashbackRow(RawDate(1, 12, 2021, 12), OK, Str(<<"7", "0">>), <<"T">>),
     CashbackRow(RawDate(3, 1, 2022, 9), OK, Num(70), <<"A">>),
     CashbackRow(RawDate(1, 12, 2021, 12), OK, Num(-30), <<"S">>)}

ServiceColumnSets ==
    {{"date", "status", "cashback", "category"}, {"date", "status"}, {"cashback"}, {}}

FileStates == {"missing", "not_excel", "bad_zip", "ok"}

Periods == {<<2021, 12>>, <<2022, 1>>, <<2021, 11>>}

NoServiceCall == [op |-> "none", year |-> 0, month |-> 0]

InitServices ==
    /\ file_state \in FileStates
    /\ columns \in IF file_state = "ok" THEN ServiceColumnSets ELSE {{}}
    /\ transactions \in IF file_state = "ok"
                        THEN SeqsUpTo({Project(r, columns) : r \in ServiceRows}, MaxRows)
                        ELSE {<<>>}
    /\ sink_ok = TRUE
    /\ sink = NoFile
    /\ config = NoConfig
    /\ settings_cache = EmptyCache
    /\ requests = <<>>
    /\ call = NoServiceCall
    /\ result = NoJson
    /\ returned = NoJson

\* one call of analyze_cashback_categories on the file
CallCashback ==
    \E period \in Periods :
        LET out == analyze_cashback_categories(file_state, transactions, columns,
                                               period[1], period[2])
        IN  /\ call.op = "none"
            /\ call' = [op |-> "analyze_cashback_categories", year |-> period[1],
                        month |-> period[2]]
            /\ result' = out
            /\ returned' = out
            /\ UNCHANGED <<transactions, columns, file_state, sink_ok, sink, config,
                         settings_cache, requests>>

NextServices == CallCashback

SpecServices == InitServices /\ [][NextServices]_vars

-----------------------------------------------------------------------------
(* Properties of analyze_cashback_categories *)

CashbackCalled == call.op = "analyze_cashback_categories"

\* the file is read and has the four required columns
CashbackTableAccepted ==
    file_state = "ok" /\ {"date", "status", "cashback", "category"} \subseteq columns

IsNumericCell(c) ==
    \/ IsNum(c)
    \/ IsStr(c) /\ Len(c.s) > 0 /\ \A i \in 1..Len(c.s) : c.s[i] \in Digits

\* row i has a parseable date in the asked year and month, a status that is
\* "OK" after trim and uppercase, and a numeric cashback > 0
QualifyingRow(i) ==
    LET row == transactions[i]
        dt == to_datetime(row.date)
    IN  /\ dt # NaT /\ dt.y = call.year /\ dt.m = call.month
        /\ IsStr(row.status) /\ Strip(Upper(row.status.s)) = <<"O", "K">>
        /\ IsNumericCell(row.cashback) /\ to_numeric(row.cashback).v > 0

QualifyingRows == {i \in 1..Len(transactions) : QualifyingRow(i)}

RECURSIVE SumCashback(_)
SumCashback(S) ==
    IF S = {} THEN 0
    ELSE LET i == CHOOSE j \in S : TRUE
         IN  to_numeric(transactions[i].cashback).v + SumCashback(S \ {i})

\* C6: the report holds a category exactly when a row of the category
\* qualifies, once, with the sum of the cashback of exactly those rows; it is
\* the empty mapping when no row qualifies.
C6_CashbackByCategory ==
    (CashbackCalled /\ CashbackTableAccepted) =>
        LET entries == result.report
            rowsOf(k) == {i \in QualifyingRows : transactions[i].category = Str(k)}
        IN  /\ result.kind = "report"
            /\ {entries[i].category : i \in 1..Len(entries)}
                  = {transactions[i].category.s : i \in QualifyingRows}
            /\ \A i, j \in 1..Len(entries) :
                  entries[i].category = entries[j].category => i = j
            /\ \A i \in 1..Len(entries) :
                  entries[i].total = SumCashback(rowsOf(entries[i].category))
            /\ QualifyingRows = {} => entries = <<>>

\* two categories, one of them the sum of two rows, next to a row that does
\* not qualify
C6_Witness ==
    /\ CashbackCalled /\ CashbackTableAccepted
    /\ Len(result.report) = 2
    /\ \E i \in 1..2 : result.report[i] = [category |-> <<"S">>, total |-> 150]
    /\ Cardinality(QualifyingRows) = 3

\* C7: the totals of a returned report are in non-increasing order.
C7_SortedNonIncreasing ==
    (CashbackCalled /\ result.kind = "report") =>
        \A i \in 1..(Len(result.report) - 1) :
            result.report[i].total >= result.report[i + 1].total

\* a report whose order of totals is not the order of the category names
C7_Witness ==
    /\ CashbackCalled /\ result.kind = "report"
    /\ Len(result.report) >= 2
    /\ result.report[1].total > result.report[2].total
    /\ StrLess(result.report[2].category, result.report[1].category)

\* C8 as stated: the call raises exactly when the file does not exist
\* (NotFoundError) or a required column is absent (SchemaError).
C8_Original ==
    CashbackCalled =>
        /\ file_state = "missing"
              => (returned.kind = "raised" /\ returned.err = "NotFoundError")
        /\ (file_state = "ok" /\ ~CashbackTableAccepted)
              => (returned.kind = "raised" /\ returned.err = "SchemaError")
        /\ (file_state \in {"not_excel", "bad_zip"} \/ CashbackTableAccepted)
              => returned.kind \in {"report", "error"}

\* C8 (amended): the call never raises.  A missing file and an absent required
\* column each give an error-shaped value (naming the failure, the second one
\* listing the absent columns); every other failure gives an error-shaped
\* value as well, and an accepted table gives a report.
C8_NeverPropagates ==
    CashbackCalled =>
        /\ returned.kind \in {"report", "error"}
        /\ file_state = "missing" => returned = JsonError("NotFoundError", <<>>)
        /\ (file_state = "ok" /\ ~CashbackTableAccepted) =>
              /\ returned.kind = "error" /\ returned.err = "SchemaError"
              /\ {returned.missing[i] : i \in 1..Len(returned.missing)}
                    = {"date", "status", "cashback", "category"} \ columns
        /\ file_state \in {"not_excel", "bad_zip"} => returned.kind = "error"
        /\ CashbackTableAccepted => returned.kind = "report"

\* the file does not exist and the caller gets the error value
C8_Witness ==
    /\ CashbackCalled
    /\ file_state = "missing"
    /\ returned = JsonError("NotFoundError", <<>>)

-----------------------------------------------------------------------------
(* views.py: process_cards_data *)

\* the four characters of s from position p on are digits
FourDigitsAt(s, p) == p + 3 <= Len(s) /\ \A k \in p..(p + 3) : s[k] \in Digits

\* re.search(r"\*(\d{4})") from position p on: the first group, or NaN
RECURSIVE ExtractFrom(_, _)
ExtractFrom(s, p) ==
    IF p > Len(s) THEN NaN
    ELSE IF s[p] = "*" /\ FourDigitsAt(s, p + 1) THEN Str(SubSeq(s, p + 1, p + 4))
    ELSE ExtractFrom(s, p + 1)

\* .str.extract(r"\*(\d{4})") on one cell of an object column: cells that are
\* no text give NaN
str_extract(c) == IF IsStr(c) THEN ExtractFrom(c.s, 1) ELSE NaN

\* the .str accessor exists: the column is empty or holds text (a column of
\* numbers or of missing values only is a numeric column)
StrAccessorOk(df) == df = <<>> \/ \E i \in 1..Len(df) : IsStr(df[i].card)

CardList(entries) ==
    [kind |-> "report", report |-> entries, msg |-> "", err |-> "", missing |-> <<>>]

\* the table after df["last_digits"] = ...
WithLastDigits(df) ==
    [i \in 1..Len(df) |-> [df[i] EXCEPT !.last_digits = str_extract(df[i].card)]]

\* mutant: the cashback is taken from the rounded total
CardEntry_FromRounded(last_digits, total_spent) ==
    [last_digits |-> last_digits,
     total_spent |-> Abs(Round2(total_spent)),
     cashback |-> Abs(RoundHalfEvenDiv(Round2(total_spent), 100))]

\* one entry of cards_data; total_spent is the sum of the group in
\* milli-units, the two fields are in cents
CardEntry(last_digits, total_spent) ==
    [last_digits |-> last_digits,
     total_spent |-> Abs(Round2(total_spent)),
     cashback |-> Abs(RoundHalfEvenDiv(total_spent, 1000))]

\* mutant: rows of every sign are grouped
CardExpenses_AnySign(df) == SelectSeq(df, LAMBDA r : IsNum(r.amount))

\* df[df["Сумма операции"] < 0]
CardExpenses(df) == SelectSeq(df, LAMBDA r : IsNum(r.amount) /\ r.amount.v < 0)

\* groupby("last_digits")["Сумма операции"].sum() and the loop over it
CardsGrouped(df) ==
    LET spent == CardExpenses(df)
        keys == SortedKeys({spent[i].last_digits.s :
                               i \in {j \in 1..Len(spent) : IsStr(spent[j].last_digits)}})
        amounts(k) ==
            LET of == SelectSeq(spent, LAMBDA r : r.last_digits = Str(k))
            IN  [i \in 1..Len(of) |-> of[i].amount.v]
    IN  [i \in 1..Len(keys) |-> CardEntry(keys[i], SumSeq(amounts(keys[i])))]

\* mutant: the failure of the .str accessor is not caught
process_cards_data_Raising(df, cols) ==
    IF "card" \notin cols \/ ~StrAccessorOk(df)
    THEN <<Exception("AttributeError", <<>>), df, cols>>
    ELSE IF "amount" \notin cols
    THEN <<CardList(<<>>), WithLastDigits(df), cols \cup {"last_digits"}>>
    ELSE <<CardList(CardsGrouped(WithLastDigits(df))), WithLastDigits(df),
           cols \cup {"last_digits"}>>

\* process_cards_data: <<the list returned, the table afterwards, its columns>>.
\* Every exception gives the empty list; the column added before the exception
\* stays in the caller's table.
process_cards_data(df, cols) ==
    IF "card" \notin cols \/ ~StrAccessorOk(df) THEN <<CardList(<<>>), df, cols>>
    ELSE IF "amount" \notin cols
    THEN <<CardList(<<>>), WithLastDigits(df), cols \cup {"last_digits"}>>
    ELSE <<CardList(CardsGrouped(WithLastDigits(df))), WithLastDigits(df),
           cols \cup {"last_digits"}>>

-----------------------------------------------------------------------------
(* The specification of process_cards_data *)

CardRow(card, amount) == [BlankRow EXCEPT !.card = card, !.amount = amount]

Card1234 == Str(<<"*", "1", "2", "3", "4">>)
Card5678 == Str(<<"*", "5", "6", "7", "8">>)

CardRows ==
    {CardRow(Card1234, Num(-100500)),
     CardRow(Card1234, Num(-50250)),
     CardRow(Card5678, Num(-150504)),
     CardRow(Card5678, Num(-992)),
     CardRow(Card1234, Num(100000)),
     CardRow(Card5678, NaN),
     CardRow(NaN, Num(-100500)),
     CardRow(Str(<<"1", "2", "3", "4">>), Num(-100500)),
     CardRow(Str(<<"*", "1", "2", "3">>), Num(-100500)),
     CardRow(Num(1234), Num(-100500)),
     CardRow(Str(<<"x", "*", "5", "6", "7", "8", "9">>), Num(-50250)),
     CardRow(Str(<<"*", "9", "0", "1", "2">>), Num(100000))}

CardColumnSets == {{"card", "amount"}, {"amount"}, {"card"}}

NoCardCall == [op |-> "none"]

InitCards ==
    /\ columns \in CardColumnSets
    /\ transactions \in SeqsUpTo({Project(r, columns) : r \in CardRows}, MaxRows)
    /\ file_state = "ok"
    /\ sink_ok = TRUE
    /\ sink = NoFile
    /\ config = NoConfig
    /\ settings_cache = EmptyCache
    /\ requests = <<>>
    /\ call = NoCardCall
    /\ result = NoJson
    /\ returned = NoJson

\* one call of process_cards_data on the table
CallCards ==
    LET out == process_cards_data(transactions, columns)
    IN  /\ call.op = "none"
        /\ call' = [op |-> "process_cards_data"]
        /\ result' = out[1]
        /\ returned' = out[1]
        /\ transactions' = out[2]
        /\ columns' = out[3]
        /\ UNCHANGED <<file_state, sink_ok, sink, config, settings_cache, requests>>

NextCards == CallCards

SpecCards == InitCards /\ [][NextCards]_vars

-----------------------------------------------------------------------------
(* Properties of process_cards_data *)

CardsCalled == call.op = "process_cards_data"

\* the table has the two columns the function reads
CardsTableAccepted == {"card", "amount"} \subseteq columns

\* the positions of s where "*" is followed by four digits
StarPositions(s) ==
    {p \in 1..Len(s) : s[p] = "*" /\ p + 4 <= Len(s)
                       /\ \A k \in 1..4 : s[p + k] \in Digits}

\* the card field is text that matches "*NNNN"
HasCardShape(c) == IsStr(c) /\ StarPositions(c.s) # {}

\* the four-digit key of a card field that matches
CardKey(c) ==
    LET p == CHOOSE q \in StarPositions(c.s) : \A o \in StarPositions(c.s) : q <= o
    IN  <<c.s[p + 1], c.s[p + 2], c.s[p + 3], c.s[p + 4]>>

\* row i is an expense row with a card field that matches
CardExpenseRow(i) ==
    LET row == transactions[i]
    IN  HasCardShape(row.card) /\ IsNum(row.amount) /\ row.amount.v < 0

CardExpenseRows == {i \in 1..Len(transactions) : CardExpenseRow(i)}

RowsOfKey(k) == {i \in CardExpenseRows : CardKey(transactions[i].card) = k}

\* C9: the result holds exactly one summary for each four-digit key that has
\* an expense row, and no other; total_spent is the sum of the absolute
\* amounts of the expense rows of the key, rounded to 2 decimals.  Rows with
\* no matching card field, with amount >= 0 or without amount are in no
\* summary.
C9_OneSummaryPerCard ==
    (CardsCalled /\ CardsTableAccepted) =>
        LET entries == result.report
        IN  /\ {entries[i].last_digits : i \in 1..Len(entries)}
                  = {CardKey(transactions[i].card) : i \in CardExpenseRows}
            /\ \A i, j \in 1..Len(entries) :
                  entries[i].last_digits = entries[j].last_digits => i = j
            /\ \A i \in 1..Len(entries) :
                  entries[i].total_spent
                      = RoundHalfEvenDiv(SumAbsAmounts(RowsOfKey(entries[i].last_digits)), 10)

\* two cards, one of them summing two rows, next to a row that is in no summary
C9_Witness ==
    /\ CardsCalled /\ CardsTableAccepted
    /\ Len(result.report) = 2
    /\ \E i \in 1..2 : /\ result.report[i].last_digits = <<"1", "2", "3", "4">>
                       /\ result.report[i].total_spent = 15075
    /\ Cardinality(CardExpenseRows) = 3

\* C10 as stated: cashback is the entry's reported total_spent divided by 100
\* and rounded to 2 decimals.
C10_Original ==
    CardsCalled =>
        \A i \in 1..Len(result.report) :
            result.report[i].cashback
                = RoundHalfEvenDiv(result.report[i].total_spent, 100)

\* C10 (amended): cashback is the unrounded sum of the expense amounts of the
\* key divided by 100 and rounded to 2 decimals; it is never more than 0.01
\* away from the reported total_spent divided by 100 and rounded.
C10_CashbackOfUnroundedSum ==
    CardsCalled =>
        \A i \in 1..Len(result.report) :
            LET e == result.report[i]
                sum == SumAbsAmounts(RowsOfKey(e.last_digits))
            IN  /\ e.cashback = RoundHalfEvenDiv(sum, 1000)
                /\ Abs(e.cashback - RoundHalfEvenDiv(e.total_spent, 100)) <= 1

\* an entry whose sum has 3 decimals and whose cashback is not the rounded
\* hundredth of its reported total
C10_Witness ==
    /\ CardsCalled
    /\ \E i \in 1..Len(result.report) :
          /\ SumAbsAmounts(RowsOfKey(result.report[i].last_digits)) % 10 # 0
          /\ result.report[i].cashback
                # RoundHalfEvenDiv(result.report[i].total_spent, 100)

\* the card column holds no text at all: numbers or missing values only
NoTextCard == \A i \in 1..Len(transactions) : ~IsStr(transactions[i].card)

\* no row of the table has a negative amount
NoNegativeAmount ==
    \A i \in 1..Len(transactions) :
        ~(IsNum(transactions[i].amount) /\ transactions[i].amount.v < 0)

\* C11: process_cards_data never raises, it always returns a list; for an
\* empty table, for a table with no negative amount and for a table whose
\* card column holds non-text values only (numbers, missing values) the list
\* is empty.  (A column that mixes text with other values is no failure: its
\* text rows are summarised, see C9.)
C11_CardsNeverRaises ==
    CardsCalled =>
        /\ returned.kind = "report"
        /\ (transactions = <<>> \/ NoNegativeAmount \/ NoTextCard)
               => returned.report = <<>>

\* a table of expense rows whose card column is numeric gave the empty list
C11_Witness ==
    /\ CardsCalled /\ CardsTableAccepted
    /\ Len(transactions) >= 2
    /\ \A i \in 1..Len(transactions) :
          /\ IsNum(transactions[i].card)
          /\ IsNum(transactions[i].amount) /\ transactions[i].amount.v < 0
    /\ returned = CardList(<<>>)

-----------------------------------------------------------------------------
(* views.py: process_top_transactions *)

\* datetime text accepted by the format "%d.%m.%Y %H:%M:%S": a calendar date
\* followed by a time of day
strptime_dmy_ok(raw) == raw.fmt = "dmy" /\ ValidDate(raw.y, raw.b, raw.a, raw.hh)

\* mutant: errors="coerce", the rows whose date does not parse are dropped
to_datetime_format_Coerce(expenses_df) ==
    LET kept == SelectSeq(expenses_df,
                          LAMBDA r : r.date.fmt = "absent" \/ strptime_dmy_ok(r.date))
    IN  JsonReport([i \in 1..Len(kept) |->
                       [kept[i] EXCEPT !.date = to_datetime(kept[i].date)]])

\* pd.to_datetime(expenses_df["Дата операции"], format="%d.%m.%Y %H:%M:%S",
\* dayfirst=True) on the whole column: a missing value becomes NaT, text that
\* the format rejects raises ValueError for the whole column
to_datetime_format(expenses_df) ==
    IF \E i \in 1..Len(expenses_df) :
          expenses_df[i].date.fmt # "absent" /\ ~strptime_dmy_ok(expenses_df[i].date)
    THEN Exception("ValueError", <<>>)
    ELSE JsonReport([i \in 1..Len(expenses_df) |->
                        [expenses_df[i] EXCEPT !.date = to_datetime(expenses_df[i].date)]])

\* .dt.strftime("%d.%m.%Y"): <<day, month, year>>, <<0, 0, 0>> for NaT
strftime_dmy(dt) == <<dt.d, dt.m, dt.y>>

\* sort_values(ascending=False) on the amount with a stable sort: e is put
\* after the rows that are not smaller
RECURSIVE InsertByAmount(_, _)
InsertByAmount(sorted, e) ==
    IF sorted = <<>> THEN <<e>>
    ELSE IF Head(sorted).amount.v >= e.amount.v
         THEN <<Head(sorted)>> \o InsertByAmount(Tail(sorted), e)
         ELSE <<e>> \o sorted

RECURSIVE SortByAmount(_)
SortByAmount(frame) ==
    IF frame = <<>> THEN <<>>
    ELSE InsertByAmount(SortByAmount(SubSeq(frame, 1, Len(frame) - 1)), frame[Len(frame)])

\* mutant: keep="first", the result is cut after n rows
nlargest_KeepFirst(frame, n) ==
    IF n <= 0 THEN <<>>
    ELSE IF n >= Len(frame) THEN SortByAmount(frame)
    ELSE SubSeq(SortByAmount(frame), 1, n)

\* DataFrame.nlargest(n, "Сумма операции", keep="all"): nothing for n <= 0, the
\* whole frame for n >= len, else the rows not smaller than the n-th largest
\* amount; largest first
nlargest(frame, n) ==
    IF n <= 0 THEN <<>>
    ELSE IF n >= Len(frame) THEN SortByAmount(frame)
    ELSE LET sorted == SortByAmount(frame)
             kth_val == sorted[n].amount.v
         IN  SelectSeq(sorted, LAMBDA r : r.amount.v >= kth_val)

\* one entry of transactions_list; the amount in cents
TopEntry(row) ==
    [date |-> strftime_dmy(row.date),
     amount |-> Abs(Round2(row.amount.v)),
     category |-> row.category,
     description |-> row.description]

\* the try block of process_top_transactions: the list, or the exception raised
TopTry(df, cols, n) ==
    IF "amount" \notin cols THEN Exception("KeyError", <<"amount">>)
    ELSE
    LET expenses_df == SelectSeq(df, LAMBDA r : IsNum(r.amount) /\ r.amount.v < 0)
        dated == to_datetime_format(expenses_df)
        top_transactions == nlargest(dated.report, n)
    IN  IF "date" \notin cols THEN Exception("KeyError", <<"date">>)
        ELSE IF dated.kind = "raised" THEN dated
        ELSE IF top_transactions # <<>> /\ "category" \notin cols
        THEN Exception("KeyError", <<"category">>)
        ELSE IF top_transactions # <<>> /\ "description" \notin cols
        THEN Exception("KeyError", <<"description">>)
        ELSE JsonReport([i \in 1..Len(top_transactions) |-> TopEntry(top_transactions[i])])

\* mutant: the exception is not caught
TopExcept_Propagate(outcome) == outcome

\* except Exception: the error is logged and the empty list returned
TopExcept(outcome) == IF outcome.kind = "raised" THEN JsonReport(<<>>) ELSE outcome

process_top_transactions(df, cols, n) == TopExcept(TopTry(df, cols, n))

-----------------------------------------------------------------------------
(* The specification of process_top_transactions *)

MaxN == 3

TopRow(date, amount, description) ==
    [BlankRow EXCEPT !.date = date, !.amount = amount, !.category = Str(<<"F">>),
                     !.description = Str(description)]

TopRows ==
    {TopRow(RawDate(1, 3, 2023, 10), Num(-100500), <<"a">>),
     TopRow(RawDate(1, 3, 2023, 10), Num(-100500), <<"b">>),
     TopRow(RawDate(15, 1, 2023, 0), Num(-50250), <<"a">>),
     TopRow(RawDate(15, 1, 2023, 0), Num(-200004), <<"a">>),
     TopRow(RawDate(1, 3, 2023, 10), Num(100000), <<"a">>),
     TopRow(RawDate(1, 3, 2023, 10), NaN, <<"a">>),
     TopRow(NoDate, Num(-50250), <<"b">>),
     TopRow(GarbageDate, Num(-50250), <<"a">>),
     TopRow(GarbageDate, Num(100000), <<"a">>),
     TopRow(GarbageDate, NaN, <<"a">>),
     TopRow(RawDate(31, 2, 2023, 10), Num(-200004), <<"a">>),
     TopRow(DateOnly(1, 3, 2023), Num(-100500), <<"a">>),
     TopRow(DateOnly(1, 3, 2023), Num(100000), <<"a">>)}

TopColumnSets ==
    {{"date", "amount", "category", "description"},
     {"date", "amount", "category"},
     {"amount", "category", "description"},
     {"date", "category", "description"}}

NoTopCall == [op |-> "none", n |-> 0]

InitTop ==
    /\ columns \in TopColumnSets
    /\ transactions \in SeqsUpTo({Project(r, columns) : r \in TopRows}, MaxRows)
    /\ file_state = "ok"
    /\ sink_ok = TRUE
    /\ sink = NoFile
    /\ config = NoConfig
    /\ settings_cache = EmptyCache
    /\ requests = <<>>
    /\ call = NoTopCall
    /\ result = NoJson
    /\ returned = NoJson

\* one call of process_top_transactions on the table; the work is done on a
\* copy of the expense rows
CallTop ==
    \E n \in 0..MaxN :
        LET out == process_top_transactions(transactions, columns, n)
        IN  /\ call.op = "none"
            /\ call' = [op |-> "process_top_transactions", n |-> n]
            /\ result' = out
            /\ returned' = out
            /\ UNCHANGED <<transactions, columns, file_state, sink_ok, sink, config,
                           settings_cache, requests>>

NextTop == CallTop

SpecTop == InitTop /\ [][NextTop]_vars

-----------------------------------------------------------------------------
(* Properties of process_top_transactions *)

TopCalled == call.op = "process_top_transactions"

TopTableAccepted == {"date", "amount", "category", "description"} \subseteq columns

\* the rows with a negative amount
TopExpenseRows ==
    {i \in 1..Len(transactions) :
        IsNum(transactions[i].amount) /\ transactions[i].amount.v < 0}

\* the date of row i is text that is no "dd.mm.yyyy HH:MM:SS" datetime
BadDate(i) ==
    LET raw == transactions[i].date
    IN  raw.fmt # "absent"
        /\ ~(raw.fmt = "dmy" /\ raw.b \in 1..12 /\ raw.a \in 1..DaysInMonth[raw.b]
              /\ raw.hh \in 0..23)

AmountOf(i) == transactions[i].amount.v

\* v is the n-th largest signed amount among the expense rows
IsNthLargest(v, n) ==
    /\ \E i \in TopExpenseRows : AmountOf(i) = v
    /\ Cardinality({i \in TopExpenseRows : AmountOf(i) > v}) < n
    /\ Cardinality({i \in TopExpenseRows : AmountOf(i) >= v}) >= n

\* the rows C12 asks for
TopSelected ==
    IF call.n = 0 THEN {}
    ELSE IF call.n >= Cardinality(TopExpenseRows) THEN TopExpenseRows
    ELSE {i \in TopExpenseRows :
             \E j \in TopExpenseRows : IsNthLargest(AmountOf(j), call.n)
                                       /\ AmountOf(i) >= AmountOf(j)}

\* row i as an entry of the result
TopRendered(i) ==
    LET row == transactions[i]
    IN  [date |-> IF row.date.fmt = "absent" THEN <<0, 0, 0>>
                  ELSE <<row.date.a, row.date.b, row.date.y>>,
         amount |-> RoundHalfEvenDiv(-row.amount.v, 10),
         category |-> row.category,
         description |-> row.description]

\* the list holds the rows of S, each once, in some order
ListsRows(list, S) ==
    /\ Len(list) = Cardinality(S)
    /\ \E f \in [1..Len(list) -> S] :
          /\ \A k, l \in 1..Len(list) : f[k] = f[l] => k = l
          /\ \A k \in 1..Len(list) : list[k] = TopRendered(f[k])

Min(a, b) == IF a <= b THEN a ELSE b

\* C12: when no expense row has a date that fails to parse, the result of
\* process_top_transactions(rows, n), n >= 0, is exactly the expense rows
\* whose signed amount is >= the n-th largest signed amount among the expense
\* rows: empty for n = 0, every expense row for n >= their number, of length
\* >= min(n, number of expense rows), and longer than n only by rows that
\* tie with the n-th amount.
C12_TopKeepsAllTies ==
    (TopCalled /\ TopTableAccepted /\ \A i \in TopExpenseRows : ~BadDate(i)) =>
        LET list == returned.report
            n == call.n
        IN  /\ returned.kind = "report"
            /\ ListsRows(list, TopSelected)
            /\ n = 0 => list = <<>>
            /\ n >= Cardinality(TopExpenseRows) => Len(list) = Cardinality(TopExpenseRows)
            /\ Len(list) >= Min(n, Cardinality(TopExpenseRows))
            /\ Len(list) > n =>
                  \E j \in TopExpenseRows :
                      /\ IsNthLargest(AmountOf(j), n)
                      /\ Cardinality({i \in TopSelected : AmountOf(i) > AmountOf(j)}) < n

\* n = 2 of three expense rows, the second and third tied: all three returned
C12_Witness ==
    /\ TopCalled /\ TopTableAccepted
    /\ \A i \in TopExpenseRows : ~BadDate(i)
    /\ call.n = 2
    /\ Cardinality(TopExpenseRows) = 3
    /\ Len(returned.report) = 3
    /\ \E i, j \in TopExpenseRows : i # j /\ AmountOf(i) = AmountOf(j)
                                     /\ \E k \in TopExpenseRows : AmountOf(k) > AmountOf(i)

\* C13 as stated: an unparseable date in any row, whatever the sign of its
\* amount, makes the result empty.
C13_Original ==
    (TopCalled /\ \E i \in 1..Len(transactions) : BadDate(i)) =>
        returned = JsonReport(<<>>)

\* C13 (amended): an unparseable date in any expense row (amount < 0),
\* selected or not, makes the result empty without raising; an unparseable
\* date in a row that is no expense row changes nothing.
C13_BadExpenseDateFailsSoft ==
    TopCalled =>
        /\ returned.kind = "report"
        /\ (\E i \in TopExpenseRows : BadDate(i)) => returned.report = <<>>
        /\ (TopTableAccepted /\ \A i \in TopExpenseRows : ~BadDate(i)) =>
               ListsRows(returned.report, TopSelected)

\* n = 1, the largest expense parses, a smaller expense does not: nothing is
\* returned
C13_Witness ==
    /\ TopCalled /\ TopTableAccepted
    /\ call.n = 1
    /\ returned = JsonReport(<<>>)
    /\ \E i, j \in TopExpenseRows :
          /\ ~BadDate(i) /\ BadDate(j) /\ AmountOf(i) > AmountOf(j)
          /\ \A k \in TopExpenseRows : BadDate(k) => k = j

-----------------------------------------------------------------------------
(* views.py: timestamps, get_greeting, validate_datetime_format *)

\* A timestamp argument is text split in its fields.  fmt tells its shape:
\* "ymd_hms" is "Y-M-D H:M:S" (padded: fields written with leading zeros, as
\* in "2023-01-01 06:00:00", or without, as in "2023-1-1 6:0:0"), "ymd" is
\* "Y-M-D" without a time, "iso_T" is "Y-M-DTH:M:S", "dmy_hms" is
\* "D.M.Y H:M:S", "garbage" is text with no date in it, "empty" is "".
Timestamp(fmt, padded, y, m, d, H, M, S) ==
    [fmt |-> fmt, padded |-> padded, y |-> y, m |-> m, d |-> d,
     H |-> H, M |-> M, S |-> S]

OtherText(fmt) == Timestamp(fmt, TRUE, 0, 0, 0, 0, 0, 0)

\* datetime.strptime(time_str, "%Y-%m-%d %H:%M:%S") returns: the directives
\* take fields with or without leading zero; a field out of range or a day
\* the month does not have raises ValueError, and so does any other shape
strptime_ymd_hms_ok(time_str) ==
    /\ time_str.fmt = "ymd_hms"
    /\ time_str.y \in 1..9999
    /\ time_str.m \in 1..12
    /\ time_str.d \in 1..DaysInMonth[time_str.m]
    /\ time_str.H \in 0..23
    /\ time_str.M \in 0..59
    /\ time_str.S \in 0..59

\* the greetings: "morning" is "Доброе утро", "day" is "Добрый день",
\* "evening" is "Добрый вечер", "night" is "Доброй ночи"
Greeting(g) == [kind |-> "greeting", report |-> <<>>, msg |-> g, err |-> "", missing |-> <<>>]

\* mutant: the evening includes 23 h
get_greeting_EveningTo23(time_str) ==
    IF strptime_ymd_hms_ok(time_str)
    THEN LET hour == time_str.H
         IN  IF 5 <= hour /\ hour < 12 THEN "morning"
             ELSE IF 12 <= hour /\ hour < 17 THEN "day"
             ELSE IF 17 <= hour /\ hour <= 23 THEN "evening"
             ELSE "night"
    ELSE "day"

get_greeting(time_str) ==
    IF strptime_ymd_hms_ok(time_str)
    THEN LET hour == time_str.H
         IN  IF 5 <= hour /\ hour < 12 THEN "morning"
             ELSE IF 12 <= hour /\ hour < 17 THEN "day"
             ELSE IF 17 <= hour /\ hour < 23 THEN "evening"
             ELSE "night"
    ELSE "day"

\* mutant: every timestamp passes the validation
validate_datetime_format_AcceptAll(time_str) == TRUE

validate_datetime_format(time_str) == strptime_ymd_hms_ok(time_str)

-----------------------------------------------------------------------------
(* The specification of get_greeting *)

\* every hour of 2023-01-01 at the start, in the middle and at the end of
\* the hour, written with and without leading zeros
GoodTimestamps ==
    {Timestamp("ymd_hms", p, 2023, 1, 1, H, ms[1], ms[2]) :
        p \in BOOLEAN, H \in 0..23, ms \in {<<0, 0>>, <<30, 0>>, <<59, 59>>}}

BadTimestamps ==
    {Timestamp("ymd_hms", TRUE, 2023, 1, 1, 24, 0, 0),
     Timestamp("ymd_hms", TRUE, 2023, 1, 1, 9, 60, 0),
     Timestamp("ymd_hms", TRUE, 2023, 1, 1, 9, 0, 60),
     Timestamp("ymd_hms", TRUE, 2023, 13, 1, 9, 0, 0),
     Timestamp("ymd_hms", TRUE, 2023, 0, 1, 9, 0, 0),
     Timestamp("ymd_hms", TRUE, 2023, 2, 30, 9, 0, 0),
     Timestamp("ymd_hms", TRUE, 2023, 1, 0, 9, 0, 0),
     Timestamp("ymd_hms", TRUE, 0, 1, 1, 9, 0, 0),
     Timestamp("ymd", TRUE, 2023, 1, 1, 0, 0, 0),
     Timestamp("iso_T", TRUE, 2023, 1, 1, 9, 0, 0),
     Timestamp("dmy_hms", TRUE, 2023, 1, 1, 9, 0, 0),
     OtherText("garbage"), OtherText("empty")}

Timestamps == GoodTimestamps \cup BadTimestamps

NoGreetingCall == [op |-> "none", time_str |-> OtherText("empty")]

InitGreeting ==
    /\ columns = {}
    /\ transactions = <<>>
    /\ file_state = "ok"
    /\ sink_ok = TRUE
    /\ sink = NoFile
    /\ config = NoConfig
    /\ settings_cache = EmptyCache
    /\ requests = <<>>
    /\ call = NoGreetingCall
    /\ result = NoJson
    /\ returned = NoJson

\* one call of get_greeting
CallGreeting ==
    \E time_str \in Timestamps :
        /\ call.op = "none"
        /\ call' = [op |-> "get_greeting", time_str |-> time_str]
        /\ result' = Greeting(get_greeting(time_str))
        /\ returned' = Greeting(get_greeting(time_str))
        /\ UNCHANGED <<transactions, columns, file_state, sink_ok, sink, config,
                       settings_cache, requests>>

NextGreeting == CallGreeting

SpecGreeting == InitGreeting /\ [][NextGreeting]_vars

-----------------------------------------------------------------------------
(* Properties of get_greeting *)

GreetingCalled == call.op = "get_greeting"

\* the text is a date and a time of day in the shape "Y-M-D H:M:S"
WellFormed(ts) ==
    /\ ts.fmt = "ymd_hms"
    /\ ts.y >= 1 /\ ts.y <= 9999
    /\ ts.m >= 1 /\ ts.m <= 12
    /\ ts.d >= 1 /\ ts.d <= DaysInMonth[ts.m]
    /\ ts.H >= 0 /\ ts.H <= 23 /\ ts.M >= 0 /\ ts.M <= 59 /\ ts.S >= 0 /\ ts.S <= 59

\* C15: get_greeting always returns exactly one of the four greetings; for a
\* well-formed timestamp the hour alone decides: morning for 5..11, day for
\* 12..16, evening for 17..22, night for 23 and 0..4; for a malformed
\* timestamp the greeting is "day".
C15_GreetingByHour ==
    GreetingCalled =>
        LET ts == call.time_str
            h == ts.H
        IN  /\ returned.kind = "greeting"
            /\ returned.msg \in {"morning", "day", "evening", "night"}
            /\ WellFormed(ts) =>
                  /\ (returned.msg = "morning") = (5 <= h /\ h < 12)
                  /\ (returned.msg = "day") = (12 <= h /\ h < 17)
                  /\ (returned.msg = "evening") = (17 <= h /\ h < 23)
                  /\ (returned.msg = "night") = (h = 23 \/ (0 <= h /\ h < 5))
            /\ ~WellFormed(ts) => returned.msg = "day"

\* 23:59:59 gave the night greeting
C15_Witness ==
    /\ GreetingCalled
    /\ WellFormed(call.time_str)
    /\ call.time_str.H = 23 /\ call.time_str.M = 59 /\ call.time_str.S = 59
    /\ returned = Greeting("night")

-----------------------------------------------------------------------------
(* views.py: load_user_settings and the providers *)

\* the defaults of load_user_settings and of the .get calls on the settings
DefaultCurrencies == <<"USD", "EUR">>
DefaultStocks == <<"AAPL", "AMZN", "GOOGL", "MSFT", "TSLA">>
DefaultSettings == SettingsFile("ok", TRUE, DefaultCurrencies, TRUE, DefaultStocks)

\* SETTINGS_PATH is not set in the environment: open(None) raises TypeError,
\* which load_user_settings does not catch
UnsetSettings == SettingsFile("unset", FALSE, <<>>, FALSE, <<>>)
MalformedSettings == SettingsFile("malformed", FALSE, <<>>, FALSE, <<>>)

\* mutant: no lru_cache, the file is read by every call
load_user_settings_NoCache(cache, file) ==
    IF file.state = "unset" THEN <<[kind |-> "raised", settings |-> file], cache>>
    ELSE LET settings == IF file.state \in {"absent", "malformed"}
                         THEN DefaultSettings ELSE file
         IN  <<[kind |-> "settings", settings |-> settings],
               [loaded |-> TRUE, settings |-> settings]>>

\* load_user_settings behind lru_cache(maxsize=1): <<what the call gives, the
\* cache afterwards>>; what it gives is [kind |-> "settings", settings |-> ...]
\* or [kind |-> "raised"]; an exception is not cached
load_user_settings(cache, file) ==
    IF cache.loaded THEN <<[kind |-> "settings", settings |-> cache.settings], cache>>
    ELSE IF file.state = "unset" THEN <<[kind |-> "raised", settings |-> file], cache>>
    ELSE LET settings == IF file.state \in {"absent", "malformed"}
                         THEN DefaultSettings ELSE file
         IN  <<[kind |-> "settings", settings |-> settings],
               [loaded |-> TRUE, settings |-> settings]>>

\* user_settings.get("user_currencies", ["USD", "EUR"])
CurrenciesOf(settings) ==
    IF settings.has_currencies THEN settings.user_currencies ELSE DefaultCurrencies

\* user_settings.get("user_stocks", [...])
StocksOf(settings) ==
    IF settings.has_stocks THEN settings.user_stocks ELSE DefaultStocks

\* What a provider does with one request: "ok" is a response with the data
\* asked for, "network" a RequestException of the transport, "http" an error
\* status (raise_for_status), "no_data" a JSON object without the expected
\* key, "not_object" JSON that is no object, "bad_value" a value that is no
\* number.
\* API rates are in millionths: rate 0.013660 RUB/USD is 13660.
OneRate == 1000000
ApiData(kind, has_rates, rates) == [kind |-> kind, has_rates |-> has_rates, rates |-> rates]
EmptyRates == ApiData("object", TRUE, <<>>)

\* the body of the response of the currency provider; rates is a sequence
\* of <<currency, rate>> pairs
CurrencyResponse(outcome) ==
    IF outcome = "ok"
    THEN ApiData("object", TRUE, <<<<"USD", 13660>>, <<"EUR", 0>>>>)
    ELSE IF outcome = "no_data" THEN ApiData("object", FALSE, <<>>)
    ELSE ApiData("not_object", FALSE, <<>>)

CurrencyRequest(currencies) == [to |-> "currency", symbol |-> currencies]
StockRequest(symbol) == [to |-> "stock", symbol |-> <<symbol>>]

\* get_currency_rate: <<api data returned, cache afterwards, requests
\* afterwards>>; every exception gives {"rates": {}}
get_currency_rate(cache, cfg, outcome, log) ==
    LET loaded == load_user_settings(cache, cfg.SETTINGS_PATH)
        currencies == CurrenciesOf(loaded[1].settings)
    IN  IF loaded[1].kind = "raised" THEN <<EmptyRates, loaded[2], log>>
        ELSE IF ~cfg.CURRENCY_API_KEY THEN <<EmptyRates, loaded[2], log>>
        ELSE IF outcome \in {"network", "http"}
        THEN <<EmptyRates, loaded[2], Append(log, CurrencyRequest(currencies))>>
        ELSE <<CurrencyResponse(outcome), loaded[2],
               Append(log, CurrencyRequest(currencies))>>

FallbackRates == <<[currency |-> "USD", rate |-> 7321], [currency |-> "EUR", rate |-> 8708]>>

\* rates.get(currency, 1)
RateOf(rates, currency) ==
    IF \E i \in 1..Len(rates) : rates[i][1] = currency
    THEN rates[CHOOSE i \in 1..Len(rates) : rates[i][1] = currency][2]
    ELSE OneRate

\* round(1 / rate, 2) if rate != 0 else 0.0, in cents
FormattedRate(rate) == IF rate # 0 THEN RoundHalfEvenDiv(100 * OneRate, rate) ELSE 0

\* format_currency_rates: <<list, cache afterwards>>; an exception gives the
\* fallback table
format_currency_rates(cache, cfg, api_data) ==
    LET loaded == load_user_settings(cache, cfg.SETTINGS_PATH)
        currencies == CurrenciesOf(loaded[1].settings)
        rates == IF api_data.has_rates THEN api_data.rates ELSE <<>>
    IN  IF loaded[1].kind = "raised" THEN <<FallbackRates, loaded[2]>>
        ELSE IF api_data.kind # "object" THEN <<FallbackRates, loaded[2]>>
        ELSE <<[i \in 1..Len(currencies) |->
                   [currency |-> currencies[i],
                    rate |-> FormattedRate(RateOf(rates, currencies[i]))]],
               loaded[2]>>

\* the price of the quote of a symbol, in thousandths
QuotePrice == 150254

\* mutant: the first failure ends the loop
RECURSIVE StockLoop_AbortOnFailure(_, _, _, _, _)
StockLoop_AbortOnFailure(symbols, outcomes, i, stock_prices, log) ==
    IF i > Len(symbols) THEN <<stock_prices, log>>
    ELSE LET sent == Append(log, StockRequest(symbols[i]))
         IN  IF outcomes[i] = "ok"
             THEN StockLoop_AbortOnFailure(symbols, outcomes, i + 1,
                      Append(stock_prices,
                             [stock |-> symbols[i], price |-> Round2(QuotePrice)]),
                      sent)
             ELSE <<stock_prices, sent>>

\* the loop "for symbol in symbols" from the i-th symbol on: one request for
\* each symbol; a price is appended when the request succeeds, every failure
\* is logged and the loop goes on
RECURSIVE StockLoop(_, _, _, _, _)
StockLoop(symbols, outcomes, i, stock_prices, log) ==
    IF i > Len(symbols) THEN <<stock_prices, log>>
    ELSE LET sent == Append(log, StockRequest(symbols[i]))
         IN  IF outcomes[i] = "ok"
             THEN StockLoop(symbols, outcomes, i + 1,
                      Append(stock_prices,
                             [stock |-> symbols[i], price |-> Round2(QuotePrice)]),
                      sent)
             ELSE StockLoop(symbols, outcomes, i + 1, stock_prices, sent)

\* get_stock_prices: <<the list or the exception raised, cache afterwards,
\* requests afterwards>>.  The test of the API key is outside the try.
get_stock_prices(cache, cfg, outcomes, log) ==
    IF ~cfg.ALPHA_VANTAGE_API_KEY THEN <<Exception("ValueError", <<>>), cache, log>>
    ELSE LET loaded == load_user_settings(cache, cfg.SETTINGS_PATH)
             symbols == StocksOf(loaded[1].settings)
             looped == StockLoop(symbols, outcomes, 1, <<>>, log)
         IN  IF loaded[1].kind = "raised" THEN <<JsonReport(<<>>), loaded[2], log>>
             ELSE <<JsonReport(looped[1]), loaded[2], looped[2]>>

-----------------------------------------------------------------------------
(* The specification of get_stock_prices *)

ProviderOutcomes == {"ok", "network", "http", "no_data", "not_object", "bad_value"}

\* the settings files of the model: none, no JSON, the defaults written out,
\* an object with short lists, an object without the two keys, an object
\* with an empty list of stocks
SettingsFiles ==
    {AbsentSettings, MalformedSettings, UnsetSettings, DefaultSettings,
     SettingsFile("ok", TRUE, <<"USD">>, TRUE, <<"AAPL", "TSLA">>),
     SettingsFile("ok", TRUE, <<"EUR", "CNY">>, TRUE, <<"TSLA", "AAPL", "MSFT">>),
     SettingsFile("ok", FALSE, <<>>, FALSE, <<>>),
     SettingsFile("ok", TRUE, <<>>, TRUE, <<>>)}

\* get_stock_prices does not read CURRENCY_API_KEY
Configs ==
    [CURRENCY_API_KEY : {TRUE}, ALPHA_VANTAGE_API_KEY : BOOLEAN,
     SETTINGS_PATH : SettingsFiles]

\* the symbols get_stock_prices will ask for under a configuration
SymbolsUnder(cfg) ==
    IF cfg.SETTINGS_PATH.state = "unset" THEN <<>>
    ELSE IF cfg.SETTINGS_PATH.state = "ok" /\ cfg.SETTINGS_PATH.has_stocks
    THEN cfg.SETTINGS_PATH.user_stocks
    ELSE DefaultStocks

NoStocksCall == [op |-> "none", outcomes |-> <<>>]

InitStocks ==
    /\ columns = {}
    /\ transactions = <<>>
    /\ file_state = "ok"
    /\ sink_ok = TRUE
    /\ sink = NoFile
    /\ config \in Configs
    /\ settings_cache = EmptyCache
    /\ requests = <<>>
    /\ call = NoStocksCall
    /\ result = NoJson
    /\ returned = NoJson

\* one call of get_stock_prices; outcomes[i] is what the provider does with
\* the request for the i-th symbol
CallStocks ==
    \E outcomes \in [1..Len(SymbolsUnder(config)) -> ProviderOutcomes] :
        LET out == get_stock_prices(settings_cache, config, outcomes, requests)
        IN  /\ call.op = "none"
            /\ call' = [op |-> "get_stock_prices", outcomes |-> outcomes]
            /\ result' = out[1]
            /\ returned' = out[1]
            /\ settings_cache' = out[2]
            /\ requests' = out[3]
            /\ UNCHANGED <<transactions, columns, file_state, sink_ok, sink, config>>

NextStocks == CallStocks

SpecStocks == InitStocks /\ [][NextStocks]_vars

-----------------------------------------------------------------------------
(* Properties of get_stock_prices *)

StocksCalled == call.op = "get_stock_prices"

\* the batch runs: the API key is configured and the settings can be loaded
BatchRuns == config.ALPHA_VANTAGE_API_KEY /\ config.SETTINGS_PATH.state # "unset"

\* the configured symbols: those of the settings file, the defaults when the
\* file is absent, is no JSON or has no "user_stocks"
ConfiguredStocks ==
    LET file == config.SETTINGS_PATH
    IN  IF file.state = "ok" /\ file.has_stocks THEN file.user_stocks
        ELSE <<"AAPL", "AMZN", "GOOGL", "MSFT", "TSLA">>

\* the positions of the configured symbols whose request succeeded
Succeeded == {i \in 1..Len(ConfiguredStocks) : call.outcomes[i] = "ok"}

\* list names exactly the symbols at the positions of S, in their order
NamesInOrder(list, S) ==
    /\ Len(list) = Cardinality(S)
    /\ \E f \in [1..Len(list) -> S] :
          /\ \A k, l \in 1..Len(list) : k < l => f[k] < f[l]
          /\ \A k \in 1..Len(list) : list[k].stock = ConfiguredStocks[f[k]]

\* C20: in get_stock_prices a failure for one symbol never ends the batch:
\* the requests sent are one for every configured symbol, in configured
\* order, whatever the earlier requests gave, and the result names exactly
\* the symbols whose request succeeded, in configured order, each once.
C20_BatchSurvivesFailures ==
    (StocksCalled /\ BatchRuns) =>
        /\ Len(requests) = Len(ConfiguredStocks)
        /\ \A i \in 1..Len(requests) :
              requests[i] = [to |-> "stock", symbol |-> <<ConfiguredStocks[i]>>]
        /\ returned.kind = "report"
        /\ NamesInOrder(returned.report, Succeeded)

\* the first request failed, a later one succeeded and is in the result, a
\* request after that failed again
C20_Witness ==
    /\ StocksCalled /\ BatchRuns
    /\ Len(ConfiguredStocks) >= 3
    /\ call.outcomes[1] = "network"
    /\ call.outcomes[2] = "ok"
    /\ call.outcomes[3] = "bad_value"
    /\ Len(requests) = Len(ConfiguredStocks)
    /\ returned.report # <<>>
    /\ returned.report[1].stock = ConfiguredStocks[2]

-----------------------------------------------------------------------------
(* views.py: generate_response *)

\* the default n of process_top_transactions
top_n == 5

\* the response before json.dumps
Response(greeting, cards, top_transactions, currency_rates, stock_prices) ==
    [greeting |-> greeting, cards |-> cards, top_transactions |-> top_transactions,
     currency_rates |-> currency_rates, stock_prices |-> stock_prices]

\* generate_response: <<the JSON returned or the exception raised, the table
\* afterwards, its columns, the cache afterwards, the requests afterwards>>.
\* get_currency_rate and format_currency_rates catch their exceptions, so
\* the except clause of lines 266-271 is never entered; every exception of the
\* second try block is logged and raised again.
generate_response(date_time_str, df, cols, cache, cfg, currency_outcome, stock_outcomes, log) ==
    IF ~validate_datetime_format(date_time_str)
    THEN <<Exception("ValueError", <<>>), df, cols, cache, log>>
    ELSE
    LET currency_api_data == get_currency_rate(cache, cfg, currency_outcome, log)
        currency_rates == format_currency_rates(currency_api_data[2], cfg,
                                                currency_api_data[1])
        cards_data == process_cards_data(df, cols)
        top_transactions == process_top_transactions(cards_data[2], cards_data[3], top_n)
        stock_prices == get_stock_prices(currency_rates[2], cfg, stock_outcomes,
                                         currency_api_data[3])
    IN  IF cards_data[1].kind = "raised"
        THEN <<cards_data[1], cards_data[2], cards_data[3], currency_rates[2],
               currency_api_data[3]>>
        ELSE IF top_transactions.kind = "raised"
        THEN <<top_transactions, cards_data[2], cards_data[3], currency_rates[2],
               currency_api_data[3]>>
        ELSE IF stock_prices[1].kind = "raised"
        THEN <<stock_prices[1], cards_data[2], cards_data[3], stock_prices[2],
               stock_prices[3]>>
        ELSE <<JsonReport(Response(get_greeting(date_time_str), cards_data[1].report,
                                   top_transactions.report, currency_rates[1],
                                   stock_prices[1].report)),
               cards_data[2], cards_data[3], stock_prices[2], stock_prices[3]>>

-----------------------------------------------------------------------------
(* The specification of generate_response *)

ResponseRow(card, date, amount) ==
    [BlankRow EXCEPT !.card = card, !.date = date, !.amount = amount,
                     !.category = Str(<<"F">>), !.description = Str(<<"a">>)]

AllViewColumns == {"card", "date", "amount", "category", "description"}

\* the tables: <<rows, columns>>
ResponseTables ==
    {<<<<ResponseRow(Card1234, RawDate(1, 3, 2023, 10), Num(-100500)),
         ResponseRow(Card5678, RawDate(15, 1, 2023, 0), Num(-150504))>>, AllViewColumns>>,
     <<<<ResponseRow(Card1234, RawDate(1, 3, 2023, 10), Num(100000)),
         ResponseRow(Card1234, RawDate(1, 3, 2023, 10), Num(-50250))>>, AllViewColumns>>,
     <<<<ResponseRow(Num(1234), RawDate(1, 3, 2023, 10), Num(-100500))>>, AllViewColumns>>,
     <<<<ResponseRow(Card1234, GarbageDate, Num(-100500)),
         ResponseRow(Card5678, RawDate(15, 1, 2023, 0), Num(-150504))>>, AllViewColumns>>,
     <<<<>>, AllViewColumns>>,
     <<<<Project(ResponseRow(Card1234, RawDate(1, 3, 2023, 10), Num(-100500)),
                 {"card", "amount"})>>, {"card", "amount"}>>,
     <<<<Project(ResponseRow(Card1234, RawDate(1, 3, 2023, 10), Num(-100500)),
                 {"date", "amount", "category", "description"})>>,
       {"date", "amount", "category", "description"}>>}

ResponseTimestamps ==
    {Timestamp("ymd_hms", TRUE, 2023, 5, 15, 14, 30, 0),
     Timestamp("ymd_hms", FALSE, 2023, 5, 15, 6, 0, 0),
     Timestamp("ymd", TRUE, 2023, 5, 15, 0, 0, 0),
     Timestamp("ymd_hms", TRUE, 2023, 2, 30, 14, 30, 0),
     OtherText("garbage")}

ResponseConfigs ==
    [CURRENCY_API_KEY : BOOLEAN, ALPHA_VANTAGE_API_KEY : BOOLEAN,
     SETTINGS_PATH : {AbsentSettings, UnsetSettings,
                      SettingsFile("ok", TRUE, <<"EUR", "CNY">>, TRUE, <<"TSLA", "AAPL">>)}]

\* what the stock provider does with a request in this specification
ResponseStockOutcomes == {"ok", "network"}

NoResponseCall ==
    [op |-> "none", date_time_str |-> OtherText("empty"), currency_outcome |-> "ok",
     stock_outcomes |-> <<>>]

InitResponse ==
    /\ \E table \in ResponseTables : transactions = table[1] /\ columns = table[2]
    /\ file_state = "ok"
    /\ sink_ok = TRUE
    /\ sink = NoFile
    /\ config \in ResponseConfigs
    /\ settings_cache = EmptyCache
    /\ requests = <<>>
    /\ call = NoResponseCall
    /\ result = NoJson
    /\ returned = NoJson

\* one call of generate_response on the table
CallResponse ==
    \E date_time_str \in ResponseTimestamps, currency_outcome \in ProviderOutcomes,
       stock_outcomes \in [1..Len(SymbolsUnder(config)) -> ResponseStockOutcomes] :
        LET out == generate_response(date_time_str, transactions, columns,
                                     settings_cache, config, currency_outcome,
                                     stock_outcomes, requests)
        IN  /\ call.op = "none"
            /\ call' = [op |-> "generate_response", date_time_str |-> date_time_str,
                        currency_outcome |-> currency_outcome,
                        stock_outcomes |-> stock_outcomes]
            /\ result' = out[1]
            /\ returned' = out[1]
            /\ transactions' = out[2]
            /\ columns' = out[3]
            /\ settings_cache' = out[4]
            /\ requests' = out[5]
            /\ UNCHANGED <<file_state, sink_ok, sink, config>>

NextResponse == CallResponse

SpecResponse == InitResponse /\ [][NextResponse]_vars

-----------------------------------------------------------------------------
(* Properties of generate_response *)

ResponseCalled == call.op = "generate_response"

\* C14: generate_response checks the timestamp first: for a timestamp that
\* is no "YYYY-MM-DD HH:MM:SS" date and time the call fails with the input
\* error (ValueError) and nothing else has happened: no request was sent to
\* the currency or the stock provider, no aggregation ran (the table is as
\* it was given) and the settings were not loaded.
C14_ValidationFirst ==
    (ResponseCalled /\ ~WellFormed(call.date_time_str)) =>
        /\ returned = Exception("ValueError", <<>>)
        /\ requests = <<>>
        /\ ~settings_cache.loaded
        /\ "last_digits" \notin columns

\* an invalid timestamp with both API keys configured and a table the
\* aggregators would have summarised: the call failed, nothing was requested
C14_Witness ==
    /\ ResponseCalled
    /\ call.date_time_str.fmt = "ymd_hms" /\ ~WellFormed(call.date_time_str)
    /\ config.CURRENCY_API_KEY /\ config.ALPHA_VANTAGE_API_KEY
    /\ config.SETTINGS_PATH.state = "ok"
    /\ Len(transactions) = 2 /\ columns = AllViewColumns
    /\ returned.kind = "raised"
    /\ requests = <<>>

\* the currency provider failed: no API key, a network or HTTP error, or a
\* response without rates
CurrencyProviderFailed ==
    \/ ~config.CURRENCY_API_KEY
    \/ call.currency_outcome \in {"network", "http", "no_data"}

\* C16: whenever the currency provider fails during generate_response, the
\* currency_rates of the report are the fallback table USD 73.21, EUR 87.08.
C16_FallbackRatesOnFailure ==
    (ResponseCalled /\ returned.kind = "report" /\ CurrencyProviderFailed) =>
        returned.report.currency_rates
            = <<[currency |-> "USD", rate |-> 7321], [currency |-> "EUR", rate |-> 8708]>>

\* what the code does instead: each configured currency with the rate 1.0,
\* unless the settings cannot be loaded
RatesAreOneOnFailure ==
    (ResponseCalled /\ returned.kind = "report" /\ CurrencyProviderFailed
       /\ config.SETTINGS_PATH.state # "unset") =>
        \A i \in 1..Len(returned.report.currency_rates) :
            returned.report.currency_rates[i].rate = 100

\* the stock provider failed: no API key, or no request gave a price
StockProviderFailed ==
    \/ ~config.ALPHA_VANTAGE_API_KEY
    \/ \A i \in 1..Len(call.stock_outcomes) : call.stock_outcomes[i] # "ok"

\* C17: whenever the stock provider fails during generate_response with a
\* valid timestamp, the missing API key included, the report is returned
\* with an empty stock_prices; nothing propagates to the caller.
C17_StockFailureNeverPropagates ==
    (ResponseCalled /\ WellFormed(call.date_time_str) /\ StockProviderFailed) =>
        /\ returned.kind = "report"
        /\ returned.report.stock_prices = <<>>

\* what the code does: with the API key configured the failures are absorbed
StockFailureAbsorbedWithKey ==
    (ResponseCalled /\ WellFormed(call.date_time_str) /\ StockProviderFailed
       /\ config.ALPHA_VANTAGE_API_KEY) =>
        /\ returned.kind = "report"
        /\ returned.report.stock_prices = <<>>

\* the computation of the card summaries fails: a column it reads is
\* missing, or the card column is not text
CardsFail ==
    \/ ~({"card", "amount"} \subseteq columns)
    \/ (transactions # <<>> /\ NoTextCard)

\* the computation of the top transactions fails: a column it reads is
\* missing, or the date of an expense row does not parse
TopFails ==
    \/ ~({"date", "amount"} \subseteq columns)
    \/ (TopExpenseRows # {} /\ ~({"category", "description"} \subseteq columns))
    \/ \E i \in TopExpenseRows : BadDate(i)

\* C18 as stated: a failure of the aggregation step propagates and no report
\* is returned.
C18_Original ==
    (ResponseCalled /\ WellFormed(call.date_time_str) /\ (CardsFail \/ TopFails)) =>
        returned.kind = "raised"

\* C18 (amended): a failure inside the computation of the card summaries or
\* of the top transactions never propagates from generate_response: the
\* report that is returned has an empty list for that part; with a valid
\* timestamp the call raises only when the stock-provider API key is not
\* configured.
C18_AggregationFailsSoft ==
    (ResponseCalled /\ WellFormed(call.date_time_str)) =>
        /\ returned.kind = "raised" => ~config.ALPHA_VANTAGE_API_KEY
        /\ (returned.kind = "report" /\ CardsFail) => returned.report.cards = <<>>
        /\ (returned.kind = "report" /\ TopFails) => returned.report.top_transactions = <<>>

\* the dates of the table do not parse and the cards are fine: the report is
\* returned with the card summaries and no top transactions
C18_Witness ==
    /\ ResponseCalled /\ WellFormed(call.date_time_str)
    /\ TopFails /\ ~CardsFail
    /\ returned.kind = "report"
    /\ Len(returned.report.cards) = 2
    /\ returned.report.top_transactions = <<>>

\* C19: no aggregator changes the table it is given: in every step the
\* caller's table keeps its columns and its rows.
C19_TableUnchanged == [][transactions' = transactions /\ columns' = columns]_vars

-----------------------------------------------------------------------------
(* The specification of load_user_settings: calls in one process, with the  *)
(* settings file rewritten between them                                     *)

MaxCalls == 3

\* open(Config.SETTINGS_PATH) of line 59 in the log of outbound accesses
SettingsRead == [to |-> "settings_file", symbol |-> <<>>]

\* the log after a call of load_user_settings: the body runs, and opens the
\* file, only when the cache holds nothing; open(None) reads no file
LogOfLoad(cache, file, log) ==
    IF cache.loaded \/ file.state = "unset" THEN log ELSE Append(log, SettingsRead)

\* calls: the calls made; returns: the calls that returned; first: what the
\* first call that returned gave; source: the settings file at that call
NoSettingsCall ==
    [op |-> "none", calls |-> 0, returns |-> 0, first |-> AbsentSettings,
     source |-> AbsentSettings]

InitSettings ==
    /\ columns = {}
    /\ transactions = <<>>
    /\ file_state = "ok"
    /\ sink_ok = TRUE
    /\ sink = NoFile
    /\ config \in [CURRENCY_API_KEY : {TRUE}, ALPHA_VANTAGE_API_KEY : {TRUE},
                    SETTINGS_PATH : SettingsFiles]
    /\ settings_cache = EmptyCache
    /\ requests = <<>>
    /\ call = NoSettingsCall
    /\ result = NoJson
    /\ returned = NoJson

\* one call of load_user_settings
CallLoadSettings ==
    LET out == load_user_settings(settings_cache, config.SETTINGS_PATH)
        gave == out[1].kind = "settings"
    IN  /\ call.calls < MaxCalls
        /\ call' = [op |-> "load_user_settings",
                    calls |-> call.calls + 1,
                    returns |-> IF gave THEN call.returns + 1 ELSE call.returns,
                    first |-> IF gave /\ call.returns = 0
                              THEN out[1].settings ELSE call.first,
                    source |-> IF gave /\ call.returns = 0
                               THEN config.SETTINGS_PATH ELSE call.source]
        /\ result' = out[1]
        /\ returned' = out[1]
        /\ settings_cache' = out[2]
        /\ requests' = LogOfLoad(settings_cache, config.SETTINGS_PATH, requests)
        /\ UNCHANGED <<transactions, columns, file_state, sink_ok, sink, config>>

\* the environment rewrites, removes or creates the settings file; the path
\* itself is read once, when class Config is defined, and does not change
ChangeSettingsFile ==
    \E file \in SettingsFiles \ {UnsetSettings} :
        /\ config.SETTINGS_PATH.state # "unset"
        /\ file # config.SETTINGS_PATH
        /\ config' = [config EXCEPT !.SETTINGS_PATH = file]
        /\ UNCHANGED <<transactions, columns, file_state, sink_ok, sink, call, result,
                       returned, settings_cache, requests>>

NextSettings == CallLoadSettings \/ ChangeSettingsFile

SpecSettings == InitSettings /\ [][NextSettings]_vars

-----------------------------------------------------------------------------
(* Properties of load_user_settings *)

\* what a settings file gives when it is read: its object, or the defaults
\* when it is absent or no JSON
ContentOf(file) ==
    IF file.state = "ok" THEN file
    ELSE [state |-> "ok", has_currencies |-> TRUE, user_currencies |-> <<"USD", "EUR">>,
          has_stocks |-> TRUE,
          user_stocks |-> <<"AAPL", "AMZN", "GOOGL", "MSFT", "TSLA">>]

\* C21: the settings are loaded once and read many times: the first call of
\* load_user_settings that returns gives the content of the file (the
\* defaults when the file is absent or malformed); every later call gives
\* the same settings, and the file is not read again, however the file has
\* been changed in between.
C21_LoadOnceReadMany ==
    (call.op = "load_user_settings" /\ call.returns >= 1) =>
        /\ call.first = ContentOf(call.source)
        /\ returned.kind = "settings"
        /\ returned.settings = call.first
        /\ Len(requests) = 1

\* a later call after the file was rewritten with other content gave the
\* settings of the first call
C21_Witness ==
    /\ call.op = "load_user_settings"
    /\ call.returns >= 2
    /\ config.SETTINGS_PATH.state = "ok"
    /\ call.source.state = "absent"
    /\ ContentOf(config.SETTINGS_PATH) # call.first
    /\ returned.settings = call.first

-----------------------------------------------------------------------------
(* Properties of report_to_file, the decorator of get_spending_by_category *)

DecoratedCalled == call.op = "get_spending_by_category"

\* the caller got a value: a report, a message or an error value
ReturnedValue == returned.kind \in {"report", "message", "error"}

\* C22: every call of get_spending_by_category that returns a value has
\* written exactly that value to the sink, under the file name the caller
\* supplied when one is given and under the default name otherwise; a call
\* that supplies a file name is such a call: with a writable sink it returns
\* its value, written to the file of that name.
C22_PersistsReturnedValue ==
    DecoratedCalled =>
        /\ ReturnedValue =>
              /\ sink.content = returned
              /\ sink.name = IF call.filename_given THEN "filename"
                              ELSE "default_filename"
        /\ (call.filename_given /\ sink_ok) =>
              /\ ReturnedValue
              /\ sink.name = "filename"

\* what the code does: a value that is returned was written verbatim to the
\* default file, and no call that supplies a file name returns
PersistsToDefaultFile ==
    DecoratedCalled =>
        /\ ReturnedValue =>
              /\ ~call.filename_given
              /\ returned = result
              /\ sink = [name |-> "default_filename", content |-> returned]
        /\ call.filename_given => returned.kind = "raised" /\ returned.err = "TypeError"

\* C23: the decorated get_spending_by_category can raise although its body
\* turns every failure into an error value: when the result cannot be
\* written to the sink, the failure of the write propagates to the caller,
\* the value the body computed is not returned and nothing is written.
C23_WriteFailurePropagates ==
    (DecoratedCalled /\ ~call.filename_given /\ ~sink_ok) =>
        /\ result.kind \in {"report", "message", "error"}
        /\ returned.kind = "raised"
        /\ returned.err = "OSError"
        /\ sink = NoFile

\* the body computed a report of two months, the sink could not be written
\* and the caller got the exception
C23_Witness ==
    /\ DecoratedCalled /\ ~call.filename_given /\ ~sink_ok
    /\ result.kind = "report"
    /\ Cardinality(result.report) = 2
    /\ returned.kind = "raised"

=============================================================================
